---- MODULE Spec2Model ----
(***************************************************************************)
(* State-machine model of the Bot facade of mirai-js (src/Bot/Bot.ts):     *)
(* the static factory Bot.create, the BotImpl constructor with its         *)
(* detached version check, the event router startListen (two EventEmitter  *)
(* bridges), onError, on, and the runs of the ProcessChain objects that on *)
(* registers as listeners.                                                 *)
(*                                                                         *)
(* The EventEmitter is Node's: emit(key, arg) calls the listeners stored   *)
(* under key synchronously in registration order, ignores what they        *)
(* return, and throws when key is 'error' and no listener is stored.       *)
(* ProcessChain (../Middleware) is not part of the sources at hand; its    *)
(* pipe and run follow the written design of the processing chain.         *)
(***************************************************************************)
EXTENDS Integers, Sequences, FiniteSets, TLC

\* ---------------------------------------------------------------- bounds
MaxChains == 2      \* on() calls
MaxStages == 3      \* stages attached to the chains of the facade
MaxPush == 2        \* pushes of the adapter (envelopes and errors)
MaxHandlers == 2    \* onError() calls

\* ------------------------------------------------------------- constants
\* A version tag is the sequence of its dot-separated parts; <<>> stands
\* for an omitted (undefined) version.
Omitted == <<>>
DefaultVersion == <<2, 6, 0>>
versions == {<<2, 6, 0>>}
VersionTags == {<<2, 6, 0>>, <<2, 5, 0>>, <<3, 0, 0>>, Omitted}
ReportedVersions == {<<2, 6, 0>>, <<2, 6, 5>>, <<2, 7, 0>>, <<1, 6, 0>>}
\* what getAbout() may resolve with: data carrying a version, or no version
ReportedData == ReportedVersions \cup {Omitted}

EventNames == {"FriendMessage", "GroupMessage"}
\* keys of the emitter: the event names, the error channel, and the key
\* that emit(undefined, ...) looks up
Keys == EventNames \cup {"error", "undefined"}
\* type tags an envelope of the adapter may carry
Tags == EventNames \cup {"error"}
Envelopes ==
    [shape : {"tagged"}, type : Tags]
        \cup [shape : {"noType", "noData"}, type : {"undefined"}]

\* An optional value is a sequence of at most one element: <<>> is undefined.
Undefined == <<>>
\* qq and group of a sendMessage call
Targets == {Undefined, <<0>>, <<5>>}
\* the messageId of the adapter's reply
MessageIds == {Undefined, <<42>>}
\* message: a string, or a MessageChain (a sequence of segments)
Segments == {[type |-> "Plain", text |-> "hi"], [type |-> "Image", text |-> ""]}
Messages ==
    [kind : {"text"}, text : {"", "hello"}, segs : {<<>>}]
        \cup [kind : {"chain"}, text : {""},
              segs : {<<>>} \cup {<<a>> : a \in Segments}
                       \cup {<<a, b>> : a, b \in Segments}]

VARIABLES
    bot,          \* the facade: [exists, version]
    factoryCalls, \* calls of MiraiServiceFactory.create
    about,        \* the constructor's getAbout().then(...) promise
    warnLog,      \* console.warn lines of the version check
    errorLog,     \* console.error lines of the version check
    listeners,    \* emitter: key -> sequence of listeners
    stages,       \* chain id -> its stage list
    runs,         \* chain occurrences, in dispatch order
    handled,      \* invocations of onError handlers, in order
    pushCount,    \* pushes of the adapter so far
    lastPush,     \* the latest push: [kind, key, threw]
    ret,          \* what the latest call of each facade operation gave back
    send          \* the latest sendMessage call: its targets, the calls of
                  \* the adapter it made, and how it ended

vars == <<bot, factoryCalls, about, warnLog, errorLog, listeners, stages,
          runs, handled, pushCount, lastPush, ret, send>>

\* ---------------------------------------------------------------- helpers
RECURSIVE SeqSum(_)
SeqSum(s) == IF s = <<>> THEN 0 ELSE Head(s) + SeqSum(Tail(s))

Take(s, n) == SubSeq(s, 1, IF n < Len(s) THEN n ELSE Len(s))

\* stages attached so far, over all chains
TotalStages == SeqSum([c \in 1..Len(stages) |-> Len(stages[c])])

\* ------------------------------------------------------------ Bot.create
\* variant: the lookup without the default for an omitted version
IsSupportedNoDefault(version) == version \in versions

\* Bot.versions.has(version ?? '2.6.0')
IsSupported(version) ==
    (IF version = Omitted THEN DefaultVersion ELSE version) \in versions

\* constructor default: version = '2.6.0'
EffectiveVersion(version) ==
    IF version = Omitted THEN DefaultVersion ELSE version

\* startListen: the two bridges are installed on the service; the facade's
\* own emitter starts with no listener under any key.
NoListeners == [k \in Keys |-> <<>>]

Create(version) ==
    /\ ~bot.exists
    /\ IF ~IsSupported(version)
       THEN /\ ret' = [ret EXCEPT !.create = "threw"]
            /\ UNCHANGED <<bot, factoryCalls, about, listeners>>
       ELSE /\ factoryCalls' = factoryCalls + 1
            /\ bot' = [exists |-> TRUE, version |-> EffectiveVersion(version)]
            /\ listeners' = NoListeners
            /\ about' = "pending"
            /\ ret' = [ret EXCEPT !.create = "bot"]
    /\ UNCHANGED <<send, warnLog, errorLog, stages, runs, handled, pushCount,
                   lastPush>>

\* ---------------------------------------------- constructor: version check
\* variant: all the parts are compared, not the first two
MismatchAllParts(reported, mine) ==
    \E i \in 1..Len(reported) : i > Len(mine) \/ reported[i] # mine[i]

\* version.split('.').slice(0, 2).some((v, i) => v !== currVersions[i])
Mismatch(reported, mine) ==
    LET r == Take(reported, 2)
        m == Take(mine, 2)
    IN \E i \in 1..Len(r) : i > Len(m) \/ r[i] # m[i]

\* the fulfilment callback of lines 49-54; when data carries no version,
\* version.split throws in it, and the rejection handler of the same then()
\* does not see what the fulfilment callback throws: the promise then()
\* returned is rejected and nobody handles it.
AboutResolve(reported) ==
    /\ about = "pending"
    /\ IF reported = Omitted
       THEN about' = "unhandled" /\ UNCHANGED warnLog
       ELSE /\ about' = "resolved"
            /\ warnLog' = warnLog
                    + (IF Mismatch(reported, bot.version) THEN 1 ELSE 0)
    /\ UNCHANGED <<send, bot, factoryCalls, errorLog, listeners, stages, runs,
                   handled, pushCount, lastPush, ret>>

AboutReject ==
    /\ about = "pending"
    /\ about' = "rejected"
    /\ errorLog' = errorLog + 1
    /\ UNCHANGED <<send, bot, factoryCalls, warnLog, listeners, stages, runs,
                   handled, pushCount, lastPush, ret>>

\* ------------------------------------------------------------ the emitter
ChainListener(c) == [kind |-> "chain", id |-> c]
HandlerListener(h) == [kind |-> "handler", id |-> h]

\* variant: an envelope without a type tag is sent to the error channel
KeyOfOrError(env) == IF env.shape = "tagged" THEN env.type ELSE "error"

\* data?.data?.type
KeyOf(env) == IF env.shape = "tagged" THEN env.type ELSE "undefined"

\* Node's emit: an 'error' event that nobody listens to is thrown
EmitThrows(key) == key = "error" /\ listeners[key] = <<>>

\* variant: delivery stops after the first listener
DispatchFirst(key) == Take(listeners[key], 1)

\* the listeners emit(key, ...) calls, in registration order
Dispatch(key) == listeners[key]

\* emit(type, data?.data): every listener is called with the same argument,
\* the one object data.data of the envelope of this push
EmittedObject(c, occ) == occ

\* variant: a chain that was terminated once stays terminated
NewRunSticky(c, occ) ==
    [chain |-> c, occ |-> occ, n |-> Len(stages[c]), idx |-> 0,
     phase |-> IF \E j \in 1..Len(runs) :
                     runs[j].chain = c /\ runs[j].phase = "terminated"
               THEN "terminated"
               ELSE IF Len(stages[c]) = 0 THEN "done" ELSE "in",
     val |-> [origin |-> occ, trace |-> <<>>],
     arg |-> [origin |-> occ, trace |-> <<>>],
     obj |-> EmittedObject(c, occ), wrote |-> FALSE]

\* ProcessChain.run(payload): a fresh execution over the stages present at
\* dispatch, which calls the first stage with the payload and suspends in it;
\* the payload carries the occurrence it came from and the markers the stages
\* appended to it. obj is the object the run was called with, wrote whether
\* its first stage has written to that object in place.
NewRun(c, occ) ==
    [chain |-> c, occ |-> occ, n |-> Len(stages[c]), idx |-> 0,
     phase |-> IF Len(stages[c]) = 0 THEN "done" ELSE "in",
     val |-> [origin |-> occ, trace |-> <<>>],
     arg |-> [origin |-> occ, trace |-> <<>>],
     obj |-> EmittedObject(c, occ), wrote |-> FALSE]

RECURSIVE StartedRuns(_, _)
StartedRuns(ls, occ) ==
    IF ls = <<>> THEN <<>>
    ELSE (IF Head(ls).kind = "chain"
          THEN <<NewRun(Head(ls).id, occ)>> ELSE <<>>)
         \o StartedRuns(Tail(ls), occ)

\* variant: only the first handler is called
HandlerCallsFirst(ls, src, n) ==
    IF ls # <<>> /\ Head(ls).kind = "handler"
    THEN <<[h |-> Head(ls).id, src |-> src, push |-> n]>> ELSE <<>>

RECURSIVE HandlerCalls(_, _, _)
HandlerCalls(ls, src, n) ==
    IF ls = <<>> THEN <<>>
    ELSE (IF Head(ls).kind = "handler"
          THEN <<[h |-> Head(ls).id, src |-> src, push |-> n]>> ELSE <<>>)
         \o HandlerCalls(Tail(ls), src, n)

\* emitter.emit(key, arg) called from a bridge of startListen; what it throws
\* is thrown into the adapter's push.
Emit(kind, key, src) ==
    LET n == pushCount + 1 IN
    /\ pushCount' = n
    /\ IF EmitThrows(key)
       THEN /\ lastPush' = [kind |-> kind, key |-> key, threw |-> TRUE]
            /\ UNCHANGED <<runs, handled>>
       ELSE /\ lastPush' = [kind |-> kind, key |-> key, threw |-> FALSE]
            /\ runs' = runs \o StartedRuns(Dispatch(key), n)
            /\ handled' = handled \o HandlerCalls(Dispatch(key), src, n)

\* service.on('miraiEvent', data => emitter.emit(data?.data?.type, data?.data))
PushEvent(env) ==
    /\ bot.exists
    /\ pushCount < MaxPush
    /\ Emit("event", KeyOf(env), "envelope")
    /\ UNCHANGED <<send, bot, factoryCalls, about, warnLog, errorLog, listeners,
                   stages, ret>>

\* service.on('error', err => emitter.emit('error', err))
PushError ==
    /\ bot.exists
    /\ pushCount < MaxPush
    /\ Emit("error", "error", "adapter")
    /\ UNCHANGED <<send, bot, factoryCalls, about, warnLog, errorLog, listeners,
                   stages, ret>>

\* --------------------------------------------------------------- onError
OnError ==
    /\ bot.exists
    /\ Len(listeners["error"]) < MaxHandlers
    /\ listeners' = [listeners EXCEPT !["error"] =
                        Append(@, HandlerListener(Len(@) + 1))]
    /\ ret' = [ret EXCEPT !.onError = "bot"]
    /\ UNCHANGED <<send, bot, factoryCalls, about, warnLog, errorLog, stages, runs,
                   handled, pushCount, lastPush>>

\* -------------------------------------------------------------------- on
\* variant: the new chain is seeded whether or not a stage was given
SeedStagesAlways(seed) == <<1>>

\* if (listener instanceof Function) chain.pipe(listener)
\* A stage is named by the number its caller gave it: the position at which
\* it was attached to its chain.
SeedStages(seed) == IF seed THEN <<1>> ELSE <<>>

On(event, seed) ==
    /\ bot.exists
    /\ Len(stages) < MaxChains
    /\ seed => TotalStages < MaxStages
    /\ LET c == Len(stages) + 1 IN
        /\ stages' = Append(stages, SeedStages(seed))
        /\ listeners' = [listeners EXCEPT ![event] =
                            Append(@, ChainListener(c))]
        /\ ret' = [ret EXCEPT !.on = c]
    /\ UNCHANGED <<send, bot, factoryCalls, about, warnLog, errorLog, runs, handled,
                   pushCount, lastPush>>

\* ---------------------------------------------------------- ProcessChain
\* pipe(stage): appends one stage and returns the same chain
Pipe(c) ==
    /\ c \in 1..Len(stages)
    /\ TotalStages < MaxStages
    /\ stages' = [stages EXCEPT ![c] = Append(@, Len(@) + 1)]
    /\ UNCHANGED <<send, bot, factoryCalls, about, warnLog, errorLog, listeners,
                   runs, handled, pushCount, lastPush, ret, send>>

\* a stage that passes its payload on appends its marker to it
StageOutput(marker, payload) ==
    [payload EXCEPT !.trace = Append(@, marker)]

\* variant: every stage is handed the event as it was dispatched
NextInputRaw(rs, i) == [origin |-> rs[i].occ, trace |-> <<>>]

\* variant: the current value is kept in one slot of the chain, which the
\* occurrences of the chain share
NextInputShared(rs, i) ==
    LET same == {j \in 1..Len(rs) : rs[j].chain = rs[i].chain}
        latest == CHOOSE j \in same : \A k \in same : rs[k].occ <= rs[j].occ
    IN rs[latest].val

\* the value run hands to the next stage of occurrence i: the output of the
\* stage that has just completed
NextInput(rs, i) == rs[i].val

\* what a failed stage reaches: the chain was built by `new ProcessChain()`
\* and holds no reference to the facade's emitter, and the emitter does not
\* capture the rejections of its listeners, so no onError handler is called.
FailureDeliveries(i) == <<>>

\* The stage in which occurrence i is suspended settles: it passes a value
\* on (run then calls the next stage with it, or completes), signals
\* termination, or fails.
StageFinish(i, outcome) ==
    /\ i \in 1..Len(runs)
    /\ runs[i].phase = "in"
    /\ LET r == runs[i]
           marker == stages[r.chain][r.idx + 1]
           last == r.idx + 1 = r.n
           rs == [runs EXCEPT ![i].val = StageOutput(marker, r.arg),
                              ![i].idx = r.idx + 1,
                              ![i].phase = IF last THEN "done" ELSE "in"]
       IN CASE outcome = "next" ->
                 /\ runs' = IF last THEN rs
                            ELSE [rs EXCEPT ![i].arg = NextInput(rs, i)]
                 /\ UNCHANGED handled
            [] outcome = "terminate" ->
                 /\ runs' = [runs EXCEPT ![i].phase = "terminated"]
                 /\ UNCHANGED handled
            [] outcome = "fail" ->
                 /\ runs' = [runs EXCEPT ![i].phase = "failed"]
                 /\ handled' = handled \o FailureDeliveries(i)
    /\ UNCHANGED <<send, bot, factoryCalls, about, warnLog, errorLog, listeners,
                   stages, pushCount, lastPush, ret>>

Outcomes == {"next", "terminate", "fail"}

\* The first stage of occurrence i, suspended, writes to the object it was
\* called with (sets a field of it) instead of building a new value.
StageMutate(i) ==
    /\ i \in 1..Len(runs)
    /\ runs[i].phase = "in" /\ runs[i].idx = 0 /\ ~runs[i].wrote
    /\ runs' = [runs EXCEPT ![i].wrote = TRUE]
    /\ UNCHANGED <<send, bot, factoryCalls, about, warnLog, errorLog,
                   listeners, stages, handled, pushCount, lastPush, ret>>

\* ----------------------------------------------------------- sendMessage
\* variant: only the first segment of a MessageChain is kept
NormalizeFirstSegment(message) ==
    IF message.kind = "text"
    THEN <<[type |-> "Plain", text |-> message.text]>>
    ELSE Take(message.segs, 1)

\* typeof message === 'string' ? [{ type: 'Plain', text: message }] : message
Normalize(message) ==
    IF message.kind = "text"
    THEN <<[type |-> "Plain", text |-> message.text]>>
    ELSE message.segs

\* variant: a call without a target falls through to the group send
RouteDefaultGroup(qq, group) ==
    IF qq # Undefined THEN "friend" ELSE "group"

\* variant: the targets are tested for truthiness, so that 0 counts as absent
RouteTruthy(qq, group) ==
    IF qq # Undefined /\ qq # <<0>> THEN "friend"
    ELSE IF group # Undefined /\ group # <<0>> THEN "group" ELSE "none"

\* variant: the group target is tested first
RouteGroupFirst(qq, group) ==
    IF group # Undefined THEN "group"
    ELSE IF qq # Undefined THEN "friend" ELSE "none"

\* if (qq !== undefined) ... if (group !== undefined) ... throw
Route(qq, group) ==
    IF qq # Undefined THEN "friend"
    ELSE IF group # Undefined THEN "group" ELSE "none"

NoSend ==
    [state |-> "none", qq |-> Undefined, groupId |-> Undefined,
     friend |-> <<>>, group |-> <<>>,
     messageId |-> Undefined, error |-> "none"]

\* sendMessage up to its await: the message is normalized and one send of the
\* service is called, or the call is rejected for want of a target
SendCall(qq, group, message) ==
    /\ bot.exists
    /\ send.state # "pending"
    /\ LET messageChain == Normalize(message)
           op == Route(qq, group)
           call == [NoSend EXCEPT !.qq = qq, !.groupId = group]
       IN send' =
            CASE op = "friend" ->
                   [call EXCEPT !.state = "pending",
                       !.friend = <<[target |-> qq,
                                     messageChain |-> messageChain]>>]
              [] op = "group" ->
                   [call EXCEPT !.state = "pending",
                       !.group = <<[target |-> group,
                                    messageChain |-> messageChain]>>]
              [] OTHER ->
                   [call EXCEPT !.state = "rejected",
                       !.error = "qq or group must be specified"]
    /\ UNCHANGED <<bot, factoryCalls, about, warnLog, errorLog, listeners,
                   stages, runs, handled, pushCount, lastPush, ret>>

\* the awaited send of the service resolves: sendMessage resolves to the
\* messageId of the reply
SendResolve(messageId) ==
    /\ send.state = "pending"
    /\ send' = [send EXCEPT !.state = "resolved", !.messageId = messageId]
    /\ UNCHANGED <<bot, factoryCalls, about, warnLog, errorLog, listeners,
                   stages, runs, handled, pushCount, lastPush, ret>>

\* the awaited send of the service rejects: so does sendMessage
SendReject ==
    /\ send.state = "pending"
    /\ send' = [send EXCEPT !.state = "rejected", !.error = "adapter"]
    /\ UNCHANGED <<bot, factoryCalls, about, warnLog, errorLog, listeners,
                   stages, runs, handled, pushCount, lastPush, ret>>

\* ================================================================= system
Init ==
    /\ bot = [exists |-> FALSE, version |-> Omitted]
    /\ factoryCalls = 0
    /\ about = "none"
    /\ warnLog = 0
    /\ errorLog = 0
    /\ listeners = NoListeners
    /\ stages = <<>>
    /\ runs = <<>>
    /\ handled = <<>>
    /\ pushCount = 0
    /\ lastPush = [kind |-> "none", key |-> "undefined", threw |-> FALSE]
    /\ ret = [create |-> "none", onError |-> "none", on |-> 0]
    /\ send = NoSend

Next ==
    \/ \E v \in VersionTags : Create(v)
    \/ \E v \in ReportedData : AboutResolve(v)
    \/ AboutReject
    \/ \E e \in Envelopes : PushEvent(e)
    \/ PushError
    \/ OnError
    \/ \E e \in EventNames, seed \in BOOLEAN : On(e, seed)
    \/ \E c \in 1..MaxChains : Pipe(c)
    \/ \E i \in 1..(MaxChains * MaxPush), o \in Outcomes : StageFinish(i, o)

Spec == Init /\ [][Next]_vars

\* The request side of the facade: construction, the version check and
\* sendMessage, which share nothing with the event side but the service.
SendNext ==
    \/ \E v \in VersionTags : Create(v)
    \/ \E v \in ReportedData : AboutResolve(v)
    \/ AboutReject
    \/ \E qq \in Targets, group \in Targets, m \in Messages :
            SendCall(qq, group, m)
    \/ \E id \in MessageIds : SendResolve(id)
    \/ SendReject

SendSpec == Init /\ [][SendNext]_vars

\* The event side with stages that write to their payload in place.
ShareNext ==
    \/ \E v \in VersionTags : Create(v)
    \/ \E e \in Envelopes : PushEvent(e)
    \/ \E e \in EventNames, seed \in BOOLEAN : On(e, seed)
    \/ \E c \in 1..MaxChains : Pipe(c)
    \/ \E i \in 1..(MaxChains * MaxPush), o \in Outcomes : StageFinish(i, o)
    \/ \E i \in 1..(MaxChains * MaxPush) : StageMutate(i)

ShareSpec == Init /\ [][ShareNext]_vars

\* ================================================================ claims
Ramp(k) == [i \in 1..k |-> i]
Handlers == listeners["error"]
\* the chains registered under a key, in registration order
ChainsUnder(key) ==
    {c \in 1..Len(stages) :
        \E k \in 1..Len(listeners[key]) : listeners[key][k] = ChainListener(c)}
EventOf(c) == CHOOSE e \in EventNames : c \in ChainsUnder(e)
\* the runs a step has added
Added == SubSeq(runs', Len(runs) + 1, Len(runs'))
AddedCalls == SubSeq(handled', Len(handled) + 1, Len(handled'))

\* C1: Bot.create succeeds for the supported tag 2.6.0 and for an omitted
\* version; for every other tag it throws, the adapter factory is not called
\* and no facade exists afterwards.
C1_CreateValidates ==
    [][\A v \in VersionTags : Create(v) =>
          IF v = <<2, 6, 0>> \/ v = Omitted
          THEN ret'.create = "bot" /\ bot'.exists /\ factoryCalls' = 1
               /\ bot'.version = <<2, 6, 0>>
          ELSE ret'.create = "threw" /\ ~bot'.exists /\ factoryCalls' = 0]_vars

C1_Witness == ret.create = "threw" /\ ~bot.exists /\ factoryCalls = 0

\* C2: a tagged envelope starts exactly one run of every chain registered
\* under its tag and no run of any other chain, and throws nothing, also when
\* no chain is registered under the tag.
C2_FanOut ==
    [][\A env \in Envelopes : (env.shape = "tagged" /\ PushEvent(env)) =>
          /\ ~lastPush'.threw
          /\ runs' = runs \o Added
          /\ \A c \in 1..Len(stages) :
                Cardinality({j \in 1..Len(Added) : Added[j].chain = c})
                    = IF c \in ChainsUnder(env.type) THEN 1 ELSE 0]_vars

\* C3: an envelope without a type tag starts no run, calls no error handler
\* and throws nothing, whatever is registered.
C3_UntaggedDropped ==
    [][\A env \in Envelopes : (env.shape # "tagged" /\ PushEvent(env)) =>
          runs' = runs /\ handled' = handled /\ ~lastPush'.threw]_vars

C3_Witness ==
    /\ lastPush.kind = "event" /\ lastPush.key = "undefined"
    /\ Len(stages) >= 1 /\ Len(Handlers) >= 1

\* C5: an error pushed by the adapter while no handler is registered is
\* swallowed: the push throws nothing.
C5_ErrorSwallowed == lastPush.kind = "error" => ~lastPush.threw

C7_FailureRouted ==
    [][\A j \in 1..Len(runs) :
          (runs[j].phase = "in" /\ runs'[j].phase = "failed") =>
              /\ \A k \in 1..Len(runs) : k # j => runs'[k] = runs[k]
              /\ Len(AddedCalls) = Len(Handlers)
              /\ \A k \in 1..Len(Handlers) : AddedCalls[k].h = Handlers[k].id]_vars

\* C4: every chain registered under an event name receives every occurrence
\* of it, whatever state the earlier runs of its siblings are in; a stage
\* failure of one run changes no other run; and a suspended run can always go
\* on, whether or not a sibling's run has failed or stays suspended.
C4_SiblingsIndependent ==
    /\ [][/\ \A env \in Envelopes :
                (env.type \in EventNames /\ PushEvent(env)) =>
                    \A c \in ChainsUnder(env.type) :
                        \E j \in 1..Len(Added) :
                            /\ Added[j].chain = c
                            /\ Added[j].occ = pushCount + 1
                            /\ Added[j].phase =
                                  IF Len(stages[c]) = 0 THEN "done" ELSE "in"
          /\ \A j \in 1..Len(runs) :
                (runs[j].phase = "in" /\ runs'[j].phase = "failed") =>
                    \A k \in 1..Len(runs) : k # j => runs'[k] = runs[k]]_vars
    /\ [](\A j \in 1..Len(runs) :
             runs[j].phase = "in" => ENABLED StageFinish(j, "next"))

\* chains A and B under one name; A's run of the first occurrence failed, B's
\* run of it is complete, and both have a run of the second occurrence
C4_Witness ==
    \E a, b \in 1..Len(runs) :
        /\ runs[a].occ = runs[b].occ /\ runs[a].chain # runs[b].chain
        /\ EventOf(runs[a].chain) = EventOf(runs[b].chain)
        /\ runs[a].phase = "failed"
        /\ runs[b].phase = "done" /\ runs[b].n >= 1
        /\ \E a2, b2 \in 1..Len(runs) :
              /\ runs[a2].chain = runs[a].chain /\ runs[a2].occ > runs[a].occ
              /\ runs[b2].chain = runs[b].chain /\ runs[b2].occ = runs[a2].occ

\* C8: the stages of an occurrence run in the order they were attached, each
\* on the output of the one before it, and a completed occurrence has run
\* them all.
C8_StagesInOrder ==
    \A j \in 1..Len(runs) :
        LET r == runs[j] IN
        /\ r.idx <= r.n /\ r.n <= Len(stages[r.chain])
        /\ r.val.trace = SubSeq(stages[r.chain], 1, r.idx)
        /\ r.val.trace = Ramp(r.idx)
        /\ r.phase = "in" => r.idx < r.n /\ r.arg = r.val
        /\ r.phase = "done" => r.idx = r.n

C8_Witness ==
    \E j \in 1..Len(runs) :
        runs[j].n = 3 /\ runs[j].phase = "done"
            /\ runs[j].val.trace = <<1, 2, 3>>

\* C9: an occurrence that a stage terminated runs no further stage, and every
\* later occurrence of the chain starts afresh at its first stage.
C9_TerminationPerOccurrence ==
    [][/\ \A j \in 1..Len(runs) :
            runs[j].phase = "terminated" => runs'[j] = runs[j]
       /\ \A j \in 1..Len(runs) :
            (runs[j].phase = "in" /\ runs'[j].phase = "terminated") =>
                /\ runs'[j].val = runs[j].val /\ runs'[j].idx = runs[j].idx
                /\ \A k \in 1..Len(runs) : k # j => runs'[k] = runs[k]
       /\ \A j \in 1..Len(Added) :
            /\ Added[j].idx = 0
            /\ Added[j].val = [origin |-> pushCount + 1, trace |-> <<>>]
            /\ Added[j].n = Len(stages[Added[j].chain])
            /\ Added[j].phase = IF Added[j].n = 0 THEN "done" ELSE "in"]_vars

\* s2 terminated the first occurrence; the second ran s1, s2, s3
C9_Witness ==
    \E j, k \in 1..Len(runs) :
        /\ runs[j].chain = runs[k].chain /\ runs[j].occ < runs[k].occ
        /\ runs[j].n = 3 /\ runs[j].phase = "terminated" /\ runs[j].idx = 1
        /\ runs[j].val.trace = <<1>>
        /\ runs[k].phase = "done" /\ runs[k].val.trace = <<1, 2, 3>>

\* C10: of two occurrences of one chain that overlap, each sees its own
\* stages in order, and every stage works on the value of its own occurrence.
C10_ReentrantRuns ==
    \A j, k \in 1..Len(runs) :
        (j # k /\ runs[j].chain = runs[k].chain) =>
            /\ runs[j].val.origin = runs[j].occ
            /\ runs[j].arg.origin = runs[j].occ
            /\ runs[j].val.trace = Ramp(runs[j].idx)
            /\ runs[j].phase = "in" => runs[j].arg.trace = Ramp(runs[j].idx)

\* the second occurrence has overtaken the first, which is still suspended
\* in a stage
C10_Witness ==
    \E j, k \in 1..Len(runs) :
        /\ runs[j].chain = runs[k].chain /\ runs[j].occ < runs[k].occ
        /\ runs[j].phase = "in" /\ runs[j].idx = 1
        /\ runs[k].phase = "in" /\ runs[k].idx = 2
\* C17: on registers one fresh chain under its event name, seeded with the
\* initial stage only when one is given, and returns it; on and pipe leave
\* every other chain, its stage list and its registration as they were.
C17_OnFreshChain ==
    [][/\ \A e \in EventNames, seed \in BOOLEAN : On(e, seed) =>
            LET c == Len(stages) + 1 IN
            /\ Len(stages') = c
            /\ stages'[c] = IF seed THEN <<1>> ELSE <<>>
            /\ \A d \in 1..Len(stages) : stages'[d] = stages[d]
            /\ listeners'[e] = Append(listeners[e], ChainListener(c))
            /\ \A k \in Keys \ {e} : listeners'[k] = listeners[k]
            /\ ret'.on = c
            /\ runs' = runs
       /\ \A c \in 1..Len(stages) : Pipe(c) =>
            /\ Len(stages') = Len(stages)
            /\ stages'[c] = Append(stages[c], Len(stages[c]) + 1)
            /\ \A d \in 1..Len(stages) : d # c => stages'[d] = stages[d]
            /\ listeners' = listeners /\ runs' = runs]_vars

\* two chains under one name; stages were piped onto the first only
C17_Witness ==
    /\ Len(stages) = 2 /\ EventOf(1) = EventOf(2) /\ ret.on = 2
    /\ stages[1] = <<1, 2>> /\ stages[2] = <<>>

\* C18: onError handlers are called only for what the adapter pushes on its
\* error stream, and no envelope of the event stream makes a push throw.
C18_ErrorChannelOnly ==
    /\ \A k \in 1..Len(handled) : handled[k].src = "adapter"
    /\ lastPush.kind = "event" => ~lastPush.threw
\* C14: constructing against an adapter whose version differs in major or
\* minor neither throws nor waits for the check, and the check writes exactly
\* one warning; when major and minor agree it writes none.
C14_AdvisoryMismatch ==
    /\ [][/\ \A v \in VersionTags : (Create(v) /\ bot'.exists) =>
                /\ ret'.create = "bot" /\ about' = "pending"
                /\ warnLog' = 0 /\ errorLog' = 0
          /\ \A r \in ReportedVersions : AboutResolve(r) =>
                /\ warnLog' = warnLog
                     + (IF r[1] # bot.version[1] \/ r[2] # bot.version[2]
                        THEN 1 ELSE 0)
                /\ errorLog' = errorLog
                /\ bot' = bot /\ ret' = ret /\ handled' = handled]_vars
    /\ [](warnLog <= 1 /\ (about = "pending" => warnLog = 0))

\* the adapter reported 2.7.0 to a facade of 2.6.0: one warning
C14_Witness ==
    /\ bot.exists /\ ret.create = "bot" /\ about = "resolved"
    /\ warnLog = 1 /\ errorLog = 0

\* C15: the version check ends logged or silent, never as a rejection that
\* nobody handles, whether the query fails or reports no usable version.
C15_CheckNeverPropagates ==
    /\ about \in {"none", "pending", "resolved", "rejected"}
    /\ about = "rejected" => errorLog = 1 /\ warnLog = 0
\* C11: sendMessage with neither qq nor group is rejected and calls neither
\* send of the adapter.
C11_NoTargetRejected ==
    [][\A m \in Messages : SendCall(Undefined, Undefined, m) =>
          /\ send'.state = "rejected"
          /\ send'.error = "qq or group must be specified"
          /\ send'.friend = <<>> /\ send'.group = <<>>]_vars

C11_Witness ==
    /\ send.qq = Undefined /\ send.groupId = Undefined
    /\ send.state = "rejected" /\ send.error = "qq or group must be specified"
    /\ send.friend = <<>> /\ send.group = <<>>

\* C12: with qq alone the friend send is called with qq, with group alone the
\* group send with group, 0 included, and the call resolves to the messageId
\* of the adapter's reply, undefined when the reply has none.
C12_RoutesByTarget ==
    [][/\ \A t \in Targets \ {Undefined}, m \in Messages :
            /\ SendCall(t, Undefined, m) =>
                  /\ send'.state = "pending"
                  /\ Len(send'.friend) = 1 /\ send'.friend[1].target = t
                  /\ send'.group = <<>>
            /\ SendCall(Undefined, t, m) =>
                  /\ send'.state = "pending"
                  /\ Len(send'.group) = 1 /\ send'.group[1].target = t
                  /\ send'.friend = <<>>
       /\ \A id \in MessageIds : SendResolve(id) =>
            /\ send'.state = "resolved" /\ send'.messageId = id
            /\ send'.friend = send.friend /\ send'.group = send.group]_vars

\* a send to the friend 0 resolved to the adapter's messageId
C12_Witness ==
    /\ send.qq = <<0>> /\ send.groupId = Undefined
    /\ send.state = "resolved" /\ send.messageId = <<42>>
    /\ send.friend # <<>> /\ send.friend[1].target = <<0>>

\* C13: the adapter is handed one Plain segment with the text for a string
\* message, and the segments themselves, in order, for a MessageChain.
C13_MessageNormalized ==
    [][\A qq \in Targets, group \in Targets, m \in Messages :
          (SendCall(qq, group, m) /\ send'.state = "pending") =>
              \A call \in {(send'.friend \o send'.group)[1]} :
                  IF m.kind = "text"
                  THEN /\ Len(call.messageChain) = 1
                       /\ call.messageChain[1].type = "Plain"
                       /\ call.messageChain[1].text = m.text
                  ELSE call.messageChain = m.segs]_vars

\* a chain of two segments reached the adapter
C13_Witness ==
    /\ send.state = "pending" /\ send.group # <<>>
    /\ send.group[1].messageChain =
          <<[type |-> "Image", text |-> ""], [type |-> "Plain", text |-> "hi"]>>

\* C19: a sendMessage call makes at most one call of the adapter; with qq and
\* group both given it is the friend send, with qq, and the call resolves to
\* its messageId.
C19_AtMostOneSend ==
    /\ [](Len(send.friend) + Len(send.group) <= 1)
    /\ [][/\ \A qq \in Targets \ {Undefined}, group \in Targets \ {Undefined},
               m \in Messages :
               SendCall(qq, group, m) =>
                  /\ Len(send'.friend) = 1 /\ send'.friend[1].target = qq
                  /\ send'.group = <<>>
          /\ \A id \in MessageIds : SendResolve(id) =>
               /\ send'.messageId = id
               /\ send'.friend = send.friend /\ send'.group = send.group
          /\ SendReject =>
               send'.friend = send.friend /\ send'.group = send.group]_vars

\* both targets were given, and the friend send's reply came back
C19_Witness ==
    /\ send.qq = <<5>> /\ send.groupId = <<0>>
    /\ send.state = "resolved" /\ send.messageId = <<42>>
    /\ Len(send.friend) = 1 /\ send.friend[1].target = <<5>>
    /\ send.group = <<>>
\* C16: what a stage of one chain writes to the payload of an occurrence is
\* never seen by a stage of another chain registered under the same name:
\* no stage is at work on an object that another chain's stage has written to.
C16_OwnCopy ==
    \A a, b \in 1..Len(runs) :
        (runs[a].chain # runs[b].chain /\ runs[a].occ = runs[b].occ
            /\ runs[a].wrote) =>
                ~(runs[b].phase = "in" /\ runs[b].idx = 0
                    /\ runs[b].obj = runs[a].obj)
====
